-------------------------- MODULE Spec2Model --------------------------
(***************************************************************************)
(* fluxion: the plugin-side runtime (plugin/plugin.go) and the tail input  *)
(* (in-tail: TailInput, Watcher).                                          *)
(*                                                                         *)
(* Three state machines share this module, each with its own              *)
(* specification:                                                          *)
(*   Spec / FairSpec   plugin.eventLoop, plugin.stop and the Exec Units    *)
(*   WatcherSpec       one Watcher: eventLoop, Scan, open, Close           *)
(*   TailSpec          TailInput.pathWatcher and its watchers map          *)
(***************************************************************************)
EXTENDS Integers, Sequences, FiniteSets, TLC

(***************************************************************************)
(* Bounds of the model.                                                    *)
(***************************************************************************)
\* Messages the parent writes to the pipe in one run.
MaxMsgs == 3
\* Largest mailbox capacity of a run.  The source makes the channel with
\* capacity 100 (plugin.go:166); the model keeps the blocking behaviour,
\* scales the number down and covers the capacity 1 and this one.
MailboxCap == 2

\* Unit ids the parent addresses.
UnitIds == {1, 2}

NoMsg == [id |-> 0, type |-> "None", unit |-> 0, ev |-> "nil", ord |-> FALSE]

\* The message types that go to an Exec Unit (message.Typ*); InfoRequest and
\* Stop are answered by the runtime itself.
UnitTypes == {"BufferOption", "Configure", "Start", "Event"}

\* Payloads of Event messages, and the values a Filter can hand back.
Events == {"e1"}
Nil == "nil"
OtherEvent == "e2"

NoCall == [cb |-> "none", err |-> FALSE, res |-> Nil]

VARIABLES
    \* ---- plugin runtime --------------------------------------------------
    mailboxCap, \* capacity of the msgC channels newExecUnit makes
    kind,       \* what the factory's plugins implement: bare, filter, output
    logEmits,   \* whether the logger forwards a log line through EmitFunc
    nread,      \* number of messages pipe.Read() has returned
    rtpc,       \* plugin.eventLoop: read, send, stop, exited
    rtmsg,      \* the message plugin.eventLoop is enqueueing
    units,      \* keys of p.units
    msgC,       \* each unit's mailbox
    chClosed,   \* whether msgC was closed
    upc,        \* execUnit.eventLoop: none, start, loop, handle, dead, done
    ucur,       \* the message a unit is handling
    buf,        \* an output unit's buffer: nil, open, closed
    doneC,      \* whether doneC was closed
    stpc,       \* execUnit.stop called from plugin.stop: idle, send, close, wait, done
    outPipe,    \* frames the latest step wrote to the outbound pipe; the
                \* parent takes them off before the next step
    crashed,    \* the process died of a nil dereference
    \* ---- observers (not program state) -----------------------------------
    created,    \* number of Exec Units newExecUnit has made, per unit id
    nrouted,    \* per unit, the number of frames read from the pipe for it
    pending,    \* per unit, the frames read for it and not yet handled, in
                \* the order they were read from the pipe
    lastCall,   \* per unit, the plugin callback that returned last
    setup,      \* per unit, whether an Init / a Start has returned nil, and
                \* whether one of them has returned an error
    arrival,    \* per unit, how far the parent is in Configure, Start, Events
    nTerminated,\* number of Terminated frames written
    stopRead    \* whether a Stop frame was read from the pipe

rtvars == <<mailboxCap, kind, logEmits, nread, rtpc, rtmsg, units, msgC, chClosed, upc,
            ucur, buf, doneC, stpc, outPipe, crashed, created, nrouted,
            pending, lastCall, setup, arrival, nTerminated, stopRead>>

\* ---- one Watcher -------------------------------------------------------
VARIABLES
    wpc,        \* Watcher.eventLoop: select, lock, check, read, unlock, exited
    wm,         \* holder of the mutex w.m: free, scan, open
    wr,         \* w.r: NoReader, or the number of the open that made it
    rClosed,    \* whether Close was called on the reader w.r points to
    rotating,   \* w.rotating
    notifyC,    \* number of values buffered in w.notifyC
    FSEventC,   \* events buffered in w.FSEventC
    chansClosed,\* whether Watcher.Close has closed the two channels
    inMap,      \* whether the watcher is still in i.watchers
    opc,        \* each scheduled open: unused, delayed, ready, clear, new,
                \* notify, done
    nopens,     \* number of opens scheduled
    nreaders,   \* number of readers NewPositionReader has made
    fsState,    \* what IsRotated reports: same, rotated, truncated
    avail,      \* complete lines the reader has not returned yet
    nappended,  \* lines appended to the file
    wpanic,     \* the process died of a send on a closed channel
    fswClosed,  \* whether TailInput.Close has closed i.fsw
    \* ---- observers (not program state) -----------------------------------
    scanSaw,    \* what the running Scan saw from IsRotated: none, rotated,
                \* truncated
    reads,      \* number of ReadLine calls the running Scan has made
    rdAtRot,    \* w.r at the moment rotating was last set
    lateScan    \* whether the loop left its select after TailInput.Close

wvars == <<wpc, wm, wr, rClosed, rotating, notifyC, FSEventC, chansClosed,
           inMap, opc, nopens, nreaders, fsState, avail, nappended, wpanic,
           fswClosed, scanSaw, reads, rdAtRot, lateScan>>

\* ---- TailInput.pathWatcher -----------------------------------------------
VARIABLES
    conf,       \* i.conf.Path: the kind of pattern and, if literal, the path
    pwpc,       \* pathWatcher: glob, apply, tick, exited
    watchers,   \* i.watchers: path -> the Watcher (numbered as created)
    changes,    \* the changes map of the running iteration
    closedWs,   \* the Watchers that were closed
    fswPaths,   \* the paths registered with i.fsw
    nwatchers,  \* number of Watchers NewWatcher has made
    iter,       \* iterations started
    \* ---- observers (not program state) -----------------------------------
    globbed,    \* what Glob returned in the running iteration
    prevWatchers\* i.watchers when the running iteration began

tvars == <<conf, pwpc, watchers, changes, closedWs, fswPaths, nwatchers, iter,
           globbed, prevWatchers>>

\* ---- realTag ---------------------------------------------------------------
VARIABLES
    tagIn,      \* the configured tag
    pathIn,     \* the path of the position entry
    tagOut,     \* what realTag returned
    tgpc        \* call, done

gvars == <<tagIn, pathIn, tagOut, tgpc>>

\* ---- TailInput.Init and posFiles ------------------------------------------
VARIABLES
    posName,    \* per unit, i.conf.PosFile
    posFiles,   \* the global map posFiles: name -> PositionFile (numbered)
    ipc,        \* per unit, TailInput.Init: lookup, new, store, done, failed
    ipf,        \* per unit, the local pf
    heldPf,     \* per unit, i.pf (0: not set)
    nPosFiles,  \* per name, the number of NewPositionFile calls that made one
    pcrash      \* the runtime ended the process on a concurrent map access

pvars == <<posName, posFiles, ipc, ipf, heldPf, nPosFiles, pcrash>>

\* The state outside the runtime, the Watcher and the path watcher.
xvars == <<gvars, pvars>>

vars == <<rtvars, wvars, tvars, xvars>>


NoSetup == [initOk |-> FALSE, startOk |-> FALSE, failed |-> FALSE]

RtInit ==
    /\ mailboxCap \in {1, MailboxCap}
    /\ kind \in {"bare", "filter", "output"}
    /\ logEmits \in BOOLEAN
    /\ nread = 0
    /\ rtpc = "read"
    /\ rtmsg = NoMsg
    /\ units = {}
    /\ msgC = [u \in UnitIds |-> <<>>]
    /\ chClosed = [u \in UnitIds |-> FALSE]
    /\ upc = [u \in UnitIds |-> "none"]
    /\ ucur = [u \in UnitIds |-> NoMsg]
    /\ buf = [u \in UnitIds |-> "nil"]
    /\ doneC = [u \in UnitIds |-> FALSE]
    /\ stpc = [u \in UnitIds |-> "idle"]
    /\ outPipe = <<>>
    /\ crashed = FALSE
    /\ created = [u \in UnitIds |-> 0]
    /\ nrouted = [u \in UnitIds |-> 0]
    /\ pending = [u \in UnitIds |-> <<>>]
    /\ lastCall = [u \in UnitIds |-> NoCall]
    /\ setup = [u \in UnitIds |-> NoSetup]
    /\ arrival = [u \in UnitIds |-> "new"]
    /\ nTerminated = 0
    /\ stopRead = FALSE

(***************************************************************************)
(* Helpers of the runtime.                                                 *)
(***************************************************************************)
OutMsg(t, u, e) == [type |-> t, unit |-> u, ev |-> e]

\* The outbound pipe as a step finds it.
Drained == <<>>

\* pipe.Write: the outbound pipe is FIFO.
PipeWrite(out, m) == Append(out, m)

\* execUnit.send: stamps the unit's own id on the message and writes it.
UnitSend(out, u, t, e) == PipeWrite(out, OutMsg(t, u, e))

\* execUnit.emit (the logger's EmitFunc and Env.Emit): an Event message.
UnitEmit(out, u, e) == UnitSend(out, u, "Event", e)

\* u.log.Info / Warning / Critical: the logger was given EmitFunc = u.emit
\* (plugin.go:170-174); whether a log call forwards the line through it is
\* the log package's business, fixed for a run by logEmits.
LogCall(out, u) == IF logEmits THEN UnitEmit(out, u, "log") ELSE out

\* unit.msgC <- m on the buffered channel: possible while it is not full.
CanEnqueue(q) == Len(q) < mailboxCap
Enqueue(q, m) == Append(q, m)

\* Mutation of MailboxHead: the newest message first.
MailboxNewest(q) == q[Len(q)]

\* for m := range u.msgC: the oldest message first.
MailboxHead(q) == Head(q)
MailboxRest(q) == Tail(q)

\* p.units[m.UnitID] lookup: a new Exec Unit is made only for an absent key.
NeedsNewUnit(u) == u \notin units

\* Mutation of DoneSignalled: stop() does not wait for the unit.
DoneNotAwaited(u) == TRUE

\* <-u.doneC in execUnit.stop: returns once doneC is closed.
DoneSignalled(u) == doneC[u]

\* wg.Wait() in plugin.stop: every unit's stop() has returned.
AllStopped == \A u \in units : stpc[u] = "done"

CallRec(cb, err, res) == [cb |-> cb, err |-> err, res |-> res]

\* Observer: q without its first frame numbered id.
RECURSIVE Without(_, _)
Without(q, id) ==
    IF q = <<>> THEN <<>>
    ELSE IF Head(q).id = id THEN Tail(q)
    ELSE <<Head(q)>> \o Without(Tail(q), id)

\* Observer: the parent's progress through Configure, Start, Events for one
\* unit; "bad" once it has left that order.
Arrive(a, t) ==
    CASE t = "BufferOption" -> IF a = "new" THEN a ELSE "bad"
      [] t = "Configure"    -> IF a = "new" THEN "configured" ELSE "bad"
      [] t = "Start"        -> IF a = "configured" THEN "started" ELSE "bad"
      [] t = "Event"        -> IF a = "started" THEN a ELSE "bad"
      [] OTHER              -> a

(***************************************************************************)
(* The parent's end of the inbound pipe.  pipe.Read() hands the runtime    *)
(* the next frame the parent wrote; which frame that is, is the parent's   *)
(* choice.  A unit's frames are numbered in the order they are read.       *)
(***************************************************************************)
\* Unit ids are interchangeable: the parent addresses unit 1 before unit 2.
Addressable == IF units = {} THEN {1} ELSE UnitIds

CanRead == ~crashed /\ rtpc = "read" /\ nread < MaxMsgs

\* id and ord are the observer's: the frame's number among the unit's frames,
\* and whether the unit's frames up to this one came as Configure, Start,
\* Events.
Frame(t, u, e) == [id |-> nrouted[u] + 1, type |-> t, unit |-> u, ev |-> e,
                   ord |-> Arrive(arrival[u], t) # "bad"]

(***************************************************************************)
(* plugin.eventLoop (plugin.go:84-110).                                    *)
(***************************************************************************)
\* Mutation of AfterReadErr: a read error is taken for a Stop.
AfterReadErrStops == "stop"

\* The return that follows a read error (plugin.go:88).
AfterReadErr == "exited"

\* pipe.Read() returned an error (EOF included): return, nothing written.
RtReadErr ==
    /\ ~crashed
    /\ rtpc = "read"
    /\ rtpc' = AfterReadErr
    /\ outPipe' = Drained
    /\ UNCHANGED <<wvars, tvars, xvars>>
    /\ UNCHANGED <<mailboxCap, kind, logEmits, nread, rtmsg, units, msgC, chClosed, upc,
                   ucur, buf, doneC, stpc, crashed, created, pending,
                   lastCall, setup, arrival, nTerminated, stopRead,
                   nrouted>>

\* case message.TypInfoRequest
RtInfo ==
    /\ CanRead
    /\ nread' = nread + 1
    /\ outPipe' = PipeWrite(Drained, OutMsg("InfoResponse", 0, Nil))
    /\ UNCHANGED <<wvars, tvars, xvars>>
    /\ UNCHANGED <<mailboxCap, kind, logEmits, rtpc, rtmsg, units, msgC, chClosed, upc,
                   ucur, buf, doneC, stpc, crashed, created, pending,
                   lastCall, setup, arrival, nTerminated, stopRead,
                   nrouted>>

\* case message.TypStop: p.stop() starts one goroutine per unit.
RtStop ==
    /\ CanRead
    /\ nread' = nread + 1
    /\ rtpc' = "stop"
    /\ stpc' = [u \in UnitIds |-> IF u \in units THEN "send" ELSE "idle"]
    /\ stopRead' = TRUE
    /\ outPipe' = Drained
    /\ UNCHANGED <<wvars, tvars, xvars>>
    /\ UNCHANGED <<mailboxCap, kind, logEmits, rtmsg, units, msgC, chClosed, upc, ucur,
                   buf, doneC, crashed, created, pending, lastCall, setup,
                   arrival, nTerminated,
                   nrouted>>

\* default: look the unit up, make it when absent (newExecUnit starts its
\* goroutine), then unit.msgC <- m, which blocks while the mailbox is full.
RtDispatch ==
    /\ CanRead
    /\ \E t \in UnitTypes :
       \E u \in Addressable :
       \E e \in IF t = "Event" THEN Events ELSE {Nil} :
       LET m == Frame(t, u, e)
           q == IF NeedsNewUnit(u) THEN <<>> ELSE msgC[u]
       IN /\ nread' = nread + 1
          /\ IF NeedsNewUnit(u)
                THEN /\ units' = units \cup {u}
                     /\ created' = [created EXCEPT ![u] = @ + 1]
                     /\ upc' = [upc EXCEPT ![u] = "start"]
                ELSE UNCHANGED <<units, created, upc>>
          /\ nrouted' = [nrouted EXCEPT ![u] = @ + 1]
          /\ pending' = [pending EXCEPT ![u] = Append(@, m)]
          /\ arrival' = [arrival EXCEPT ![u] = Arrive(@, t)]
          /\ IF CanEnqueue(q)
                THEN /\ msgC' = [msgC EXCEPT ![u] = Enqueue(q, m)]
                     /\ UNCHANGED <<rtmsg, rtpc>>
                ELSE /\ msgC' = [msgC EXCEPT ![u] = q]
                     /\ rtmsg' = m
                     /\ rtpc' = "send"
    /\ outPipe' = Drained
    /\ UNCHANGED <<wvars, tvars, xvars>>
    /\ UNCHANGED <<mailboxCap, kind, logEmits, chClosed, ucur, buf, doneC, stpc, crashed,
                   lastCall, setup, nTerminated, stopRead>>

\* unit.msgC <- m completes once the unit has made room.
RtEnqueue ==
    /\ ~crashed
    /\ rtpc = "send"
    /\ CanEnqueue(msgC[rtmsg.unit])
    /\ msgC' = [msgC EXCEPT ![rtmsg.unit] = Enqueue(@, rtmsg)]
    /\ rtmsg' = NoMsg
    /\ rtpc' = "read"
    /\ outPipe' = Drained
    /\ UNCHANGED <<wvars, tvars, xvars>>
    /\ UNCHANGED <<mailboxCap, kind, logEmits, nread, units, chClosed, upc, ucur, buf,
                   doneC, stpc, crashed, created, pending, lastCall, setup,
                   arrival, nTerminated, stopRead,
                   nrouted>>

\* Mutation of AfterTerminated: the loop goes on reading.
AfterTerminatedReads == "read"

\* The return that follows the Terminated write (plugin.go:100).
AfterTerminated == "exited"

\* After p.stop() returned: write Terminated and return.
RtTerminate ==
    /\ ~crashed
    /\ rtpc = "stop"
    /\ AllStopped
    /\ outPipe' = PipeWrite(Drained, OutMsg("Terminated", 0, Nil))
    /\ nTerminated' = nTerminated + 1
    /\ rtpc' = AfterTerminated
    /\ UNCHANGED <<wvars, tvars, xvars>>
    /\ UNCHANGED <<mailboxCap, kind, logEmits, nread, rtmsg, units, msgC, chClosed, upc,
                   ucur, buf, doneC, stpc, crashed, created, pending,
                   lastCall, setup, arrival, stopRead,
                   nrouted>>

(***************************************************************************)
(* execUnit.stop (plugin.go:253-257), one goroutine per unit.              *)
(***************************************************************************)
StopMsg == [id |-> 0, type |-> "Stop", unit |-> 0, ev |-> Nil, ord |-> FALSE]

StopSend(u) ==
    /\ ~crashed
    /\ stpc[u] = "send"
    /\ CanEnqueue(msgC[u])
    /\ msgC' = [msgC EXCEPT ![u] =
                   Enqueue(@, StopMsg)]
    /\ stpc' = [stpc EXCEPT ![u] = "close"]
    /\ outPipe' = Drained
    /\ UNCHANGED <<wvars, tvars, xvars>>
    /\ UNCHANGED <<mailboxCap, kind, logEmits, nread, rtpc, rtmsg, units, chClosed, upc,
                   ucur, buf, doneC, crashed, created, pending, lastCall,
                   setup, arrival, nTerminated, stopRead,
                   nrouted>>

StopClose(u) ==
    /\ ~crashed
    /\ stpc[u] = "close"
    /\ chClosed' = [chClosed EXCEPT ![u] = TRUE]
    /\ stpc' = [stpc EXCEPT ![u] = "wait"]
    /\ outPipe' = Drained
    /\ UNCHANGED <<wvars, tvars, xvars>>
    /\ UNCHANGED <<mailboxCap, kind, logEmits, nread, rtpc, rtmsg, units, msgC, upc, ucur,
                   buf, doneC, crashed, created, pending, lastCall, setup,
                   arrival, nTerminated, stopRead,
                   nrouted>>

StopWait(u) ==
    /\ ~crashed
    /\ stpc[u] = "wait"
    /\ DoneSignalled(u)
    /\ stpc' = [stpc EXCEPT ![u] = "done"]
    /\ outPipe' = Drained
    /\ UNCHANGED <<wvars, tvars, xvars>>
    /\ UNCHANGED <<mailboxCap, kind, logEmits, nread, rtpc, rtmsg, units, msgC, chClosed,
                   upc, ucur, buf, doneC, crashed, created, pending, lastCall,
                   setup, arrival, nTerminated, stopRead,
                   nrouted>>

(***************************************************************************)
(* execUnit.eventLoop (plugin.go:179-242).                                 *)
(***************************************************************************)
\* u.log.Info("plugin started"), before the loop.
UnitStarted(u) ==
    /\ ~crashed
    /\ upc[u] = "start"
    /\ outPipe' = LogCall(Drained, u)
    /\ upc' = [upc EXCEPT ![u] = "loop"]
    /\ UNCHANGED <<wvars, tvars, xvars>>
    /\ UNCHANGED <<mailboxCap, kind, logEmits, nread, rtpc, rtmsg, units, msgC, chClosed,
                   ucur, buf, doneC, stpc, crashed, created, pending,
                   lastCall, setup, arrival, nTerminated, stopRead,
                   nrouted>>

\* for m := range u.msgC: take the next message.
UnitRecv(u) ==
    /\ ~crashed
    /\ upc[u] = "loop"
    /\ msgC[u] # <<>>
    /\ ucur' = [ucur EXCEPT ![u] = MailboxHead(msgC[u])]
    /\ msgC' = [msgC EXCEPT ![u] = MailboxRest(@)]
    /\ upc' = [upc EXCEPT ![u] = "handle"]
    /\ outPipe' = Drained
    /\ UNCHANGED <<wvars, tvars, xvars>>
    /\ UNCHANGED <<mailboxCap, kind, logEmits, nread, rtpc, rtmsg, units, chClosed, buf,
                   doneC, stpc, crashed, created, pending, lastCall, setup,
                   arrival, nTerminated, stopRead,
                   nrouted>>

\* The range loop ends on the closed, drained mailbox: close(u.doneC).
UnitExit(u) ==
    /\ ~crashed
    /\ upc[u] = "loop"
    /\ msgC[u] = <<>>
    /\ chClosed[u]
    /\ doneC' = [doneC EXCEPT ![u] = TRUE]
    /\ upc' = [upc EXCEPT ![u] = "done"]
    /\ outPipe' = Drained
    /\ UNCHANGED <<wvars, tvars, xvars>>
    /\ UNCHANGED <<mailboxCap, kind, logEmits, nread, rtpc, rtmsg, units, msgC, chClosed,
                   ucur, buf, stpc, crashed, created, pending, lastCall,
                   setup, arrival, nTerminated, stopRead,
                   nrouted>>

\* Where the loop goes after Init or Start: an error returns from eventLoop
\* (without closing doneC), success takes the next message.
AfterSetup(err) == IF err THEN "dead" ELSE "loop"

\* Observer: the frame a unit has finished with leaves its pending list.
Handled(u) == [pending EXCEPT ![u] = Without(@, ucur[u].id)]

\* case message.TypBufferOption
UnitBufferOption(u) ==
    /\ ~crashed
    /\ upc[u] = "handle"
    /\ ucur[u].type = "BufferOption"
    /\ buf' = [buf EXCEPT ![u] = IF kind = "output" THEN "open" ELSE @]
    /\ upc' = [upc EXCEPT ![u] = "loop"]
    /\ pending' = Handled(u)
    /\ outPipe' = Drained
    /\ UNCHANGED <<wvars, tvars, xvars>>
    /\ UNCHANGED <<mailboxCap, kind, logEmits, nread, rtpc, rtmsg, units, msgC, chClosed,
                   ucur, doneC, stpc, crashed, created, lastCall, setup,
                   arrival, nTerminated, stopRead,
                   nrouted>>

\* case message.TypConfigure: u.p.Init(env)
UnitConfigure(u) ==
    /\ ~crashed
    /\ upc[u] = "handle"
    /\ ucur[u].type = "Configure"
    /\ \E err \in BOOLEAN :
          /\ lastCall' = [lastCall EXCEPT ![u] = CallRec("Init", err, Nil)]
          /\ setup' = [setup EXCEPT ![u] =
                          IF err THEN [@ EXCEPT !.failed = TRUE]
                                 ELSE [@ EXCEPT !.initOk = TRUE]]
          /\ outPipe' = IF err THEN LogCall(Drained, u) ELSE Drained
          /\ upc' = [upc EXCEPT ![u] = AfterSetup(err)]
    /\ pending' = Handled(u)
    /\ UNCHANGED <<wvars, tvars, xvars>>
    /\ UNCHANGED <<mailboxCap, kind, logEmits, nread, rtpc, rtmsg, units, msgC, chClosed,
                   ucur, buf, doneC, stpc, crashed, created, arrival,
                   nTerminated, stopRead,
                   nrouted>>

\* case message.TypStart: u.p.Start()
UnitStart(u) ==
    /\ ~crashed
    /\ upc[u] = "handle"
    /\ ucur[u].type = "Start"
    /\ \E err \in BOOLEAN :
          /\ lastCall' = [lastCall EXCEPT ![u] = CallRec("Start", err, Nil)]
          /\ setup' = [setup EXCEPT ![u] =
                          IF err THEN [@ EXCEPT !.failed = TRUE]
                                 ELSE [@ EXCEPT !.startOk = TRUE]]
          /\ outPipe' = IF err THEN LogCall(Drained, u) ELSE Drained
          /\ upc' = [upc EXCEPT ![u] = AfterSetup(err)]
    /\ pending' = Handled(u)
    /\ UNCHANGED <<wvars, tvars, xvars>>
    /\ UNCHANGED <<mailboxCap, kind, logEmits, nread, rtpc, rtmsg, units, msgC, chClosed,
                   ucur, buf, doneC, stpc, crashed, created, arrival,
                   nTerminated, stopRead,
                   nrouted>>

\* Mutation of FilterOutcome: the result is sent on as Filter returned it.
FilterOutcomeAsReturned(ev, r, err) == r

\* What the filter branch sends on: r = ev on an error, else Filter's result.
FilterOutcome(ev, r, err) == IF err THEN ev ELSE r

\* case message.TypEvent, isFilterPlugin
UnitEventFilter(u) ==
    /\ ~crashed
    /\ upc[u] = "handle"
    /\ ucur[u].type = "Event"
    /\ kind = "filter"
    /\ \E r \in {Nil, ucur[u].ev, OtherEvent} :
       \E err \in BOOLEAN :
          LET ev == ucur[u].ev
              rr == FilterOutcome(ev, r, err)
              logged == IF err THEN LogCall(Drained, u) ELSE Drained
          IN /\ lastCall' = [lastCall EXCEPT ![u] =
                                CallRec("Filter", err, r)]
             /\ outPipe' = IF rr # Nil
                              THEN UnitSend(logged, u, "EventChain", rr)
                              ELSE logged
    /\ upc' = [upc EXCEPT ![u] = "loop"]
    /\ pending' = Handled(u)
    /\ UNCHANGED <<wvars, tvars, xvars>>
    /\ UNCHANGED <<mailboxCap, kind, logEmits, nread, rtpc, rtmsg, units, msgC, chClosed,
                   ucur, buf, doneC, stpc, crashed, created, setup, arrival,
                   nTerminated, stopRead,
                   nrouted>>

\* case message.TypEvent, isOutputPlugin: Encode, then buf.Push(s).  buf is
\* the nil *buffer.Memory until a BufferOption made it.
UnitEventOutput(u) ==
    /\ ~crashed
    /\ upc[u] = "handle"
    /\ ucur[u].type = "Event"
    /\ kind = "output"
    /\ \E s \in {Nil, "sizer"} :
       \E err \in BOOLEAN :
       \E perr \in BOOLEAN :
          /\ (err \/ s = Nil) => ~perr
          /\ lastCall' = [lastCall EXCEPT ![u] =
                             CallRec("Encode", err, s)]
          /\ IF err
                THEN /\ outPipe' = LogCall(Drained, u)
                     /\ UNCHANGED crashed
                ELSE IF s = Nil
                THEN /\ outPipe' = Drained
                     /\ UNCHANGED crashed
                ELSE IF buf[u] = "nil"
                THEN /\ crashed' = TRUE
                     /\ outPipe' = Drained
                ELSE /\ outPipe' = IF perr THEN LogCall(Drained, u) ELSE Drained
                     /\ UNCHANGED crashed
    /\ upc' = [upc EXCEPT ![u] = "loop"]
    /\ pending' = Handled(u)
    /\ UNCHANGED <<wvars, tvars, xvars>>
    /\ UNCHANGED <<mailboxCap, kind, logEmits, nread, rtpc, rtmsg, units, msgC, chClosed,
                   ucur, buf, doneC, stpc, created, setup, arrival,
                   nTerminated, stopRead,
                   nrouted>>

\* case message.TypEvent for a plugin that is neither: no branch is taken.
UnitEventBare(u) ==
    /\ ~crashed
    /\ upc[u] = "handle"
    /\ ucur[u].type = "Event"
    /\ kind = "bare"
    /\ upc' = [upc EXCEPT ![u] = "loop"]
    /\ pending' = Handled(u)
    /\ outPipe' = Drained
    /\ UNCHANGED <<wvars, tvars, xvars>>
    /\ UNCHANGED <<mailboxCap, kind, logEmits, nread, rtpc, rtmsg, units, msgC, chClosed,
                   ucur, buf, doneC, stpc, crashed, created, lastCall, setup,
                   arrival, nTerminated, stopRead,
                   nrouted>>

\* case message.TypStop: buf.Close() for an output plugin, then u.p.Close().
UnitStop(u) ==
    /\ ~crashed
    /\ upc[u] = "handle"
    /\ ucur[u].type = "Stop"
    /\ IF kind = "output" /\ buf[u] = "nil"
          THEN /\ crashed' = TRUE
               /\ UNCHANGED <<buf, lastCall, upc>>
          ELSE /\ buf' = [buf EXCEPT ![u] = IF kind = "output" THEN "closed" ELSE @]
               /\ lastCall' = [lastCall EXCEPT ![u] = CallRec("Close", FALSE, Nil)]
               /\ upc' = [upc EXCEPT ![u] = "loop"]
               /\ UNCHANGED crashed
    /\ outPipe' = Drained
    /\ UNCHANGED <<wvars, tvars, xvars>>
    /\ UNCHANGED <<mailboxCap, kind, logEmits, nread, rtpc, rtmsg, units, msgC, chClosed,
                   ucur, doneC, stpc, created, pending, setup, arrival,
                   nTerminated, stopRead,
                   nrouted>>

UnitNext(u) ==
    \/ UnitStarted(u)
    \/ UnitRecv(u)
    \/ UnitExit(u)
    \/ UnitBufferOption(u)
    \/ UnitConfigure(u)
    \/ UnitStart(u)
    \/ UnitEventFilter(u)
    \/ UnitEventOutput(u)
    \/ UnitEventBare(u)
    \/ UnitStop(u)

StopperNext(u) ==
    \/ StopSend(u)
    \/ StopClose(u)
    \/ StopWait(u)

\* The runtime's own goroutine.
LoopNext ==
    \/ RtInfo
    \/ RtStop
    \/ RtDispatch
    \/ RtEnqueue
    \/ RtTerminate

(***************************************************************************)
(* One Watcher of the tail input (in_tail: Watcher).                       *)
(*                                                                         *)
(* The file, its PositionEntry and the PositionReader follow sections 4.4  *)
(* and 4.5 of the specification: what IsRotated reports is kept as         *)
(* fsState, the complete lines the reader has not returned yet as avail.   *)
(***************************************************************************)
\* Open invocations Scan schedules in one run.
MaxOpens == 3
\* Lines appended to the file in one run.
MaxLines == 2
\* Filesystem events FSEventC holds.  The source makes the channel with
\* capacity 100 (part_000:234); the model keeps the dropping send and scales
\* the number down.
FSEventCap == 1
\* Capacity of notifyC.
NotifyCap == 1

OpenIds == 1..MaxOpens
NoReader == 0
FsOps == {"write", "remove"}


\* NewWatcher has returned: its synchronous open() has succeeded or not and
\* has called notify, and eventLoop has been started.
WInit ==
    /\ \E ok \in BOOLEAN :
          /\ wr = IF ok THEN 1 ELSE NoReader
          /\ nreaders = IF ok THEN 1 ELSE 0
    /\ wpc = "select"
    /\ wm = "free"
    /\ rClosed = FALSE
    /\ rotating = FALSE
    /\ notifyC = 1
    /\ FSEventC = <<>>
    /\ chansClosed = FALSE
    /\ inMap = TRUE
    /\ opc = [k \in OpenIds |-> "unused"]
    /\ nopens = 0
    /\ fsState = "same"
    /\ avail = 0
    /\ nappended = 0
    /\ wpanic = FALSE
    /\ fswClosed = FALSE
    /\ lateScan = FALSE
    /\ scanSaw = "none"
    /\ reads = 0
    /\ rdAtRot = NoReader

\* Mutation of MutexFree: Lock never waits.
MutexIgnored == TRUE

\* w.m.Lock() returns only when nobody holds the mutex.
MutexFree == wm = "free"

\* PositionEntry.IsRotated (spec 4.4): (rotated, truncated).
IsRotated == [rotated |-> fsState = "rotated", truncated |-> fsState = "truncated"]

\* Watcher.notify: a send that is dropped when notifyC is full.
Notify(n) == IF n < NotifyCap THEN n + 1 ELSE n

\* time.AfterFunc(wait, w.open): wait is 5 seconds when a reader is present
\* and 0 otherwise; go w.open() starts at once.
Scheduled(r) == IF r # NoReader THEN "delayed" ELSE "ready"

\* Mutation of AfterCheck: the truncated branch does not return.
AfterCheckReadsOn(saw, r) == IF r = NoReader THEN "unlock" ELSE "read"

\* Where Scan goes after the rotation check: the truncated branch returns,
\* and so does a Scan without a reader.
AfterCheck(saw, r) ==
    IF saw = "truncated" \/ r = NoReader THEN "unlock" ELSE "read"

\* Mutation of CheckDue: Scan asks IsRotated whatever the flag says.
CheckAlways == TRUE

\* if !w.rotating: only then does Scan ask IsRotated.
CheckDue == ~rotating

\* ---- Watcher.eventLoop ---------------------------------------------------
\* case _, ok := <-w.notifyC with a buffered value: go on to Scan.
WRecvNotify ==
    /\ ~wpanic /\ wpc = "select" /\ notifyC > 0
    /\ notifyC' = notifyC - 1
    /\ wpc' = "lock"
    /\ lateScan' = fswClosed
    /\ UNCHANGED <<rtvars, tvars, xvars, fswClosed>>
    /\ UNCHANGED <<wm, wr, rClosed, rotating, FSEventC, chansClosed, inMap,
                   opc, nopens, nreaders, fsState, avail, nappended, wpanic,
                   scanSaw, reads, rdAtRot>>

\* case _, ok := <-w.notifyC on the closed, empty channel: return.
WRecvClosed ==
    /\ ~wpanic /\ wpc = "select" /\ notifyC = 0 /\ chansClosed
    /\ wpc' = "exited"
    /\ UNCHANGED <<rtvars, tvars, xvars, fswClosed, lateScan>>
    /\ UNCHANGED <<wm, wr, rClosed, rotating, notifyC, FSEventC, chansClosed,
                   inMap, opc, nopens, nreaders, fsState, avail, nappended,
                   wpanic, scanSaw, reads, rdAtRot>>

\* case ev := <-w.FSEventC: only Create and Write go on to Scan.  (The zero
\* event a closed FSEventC yields takes the continue and changes nothing.)
WRecvFSEvent ==
    /\ ~wpanic /\ wpc = "select" /\ FSEventC # <<>>
    /\ FSEventC' = Tail(FSEventC)
    /\ wpc' = IF Head(FSEventC) \in {"create", "write"} THEN "lock" ELSE "select"
    /\ lateScan' = fswClosed
    /\ UNCHANGED <<rtvars, tvars, xvars, fswClosed>>
    /\ UNCHANGED <<wm, wr, rClosed, rotating, notifyC, chansClosed, inMap,
                   opc, nopens, nreaders, fsState, avail, nappended, wpanic,
                   scanSaw, reads, rdAtRot>>

\* case <-tick.
WTick ==
    /\ ~wpanic /\ wpc = "select"
    /\ wpc' = "lock"
    /\ lateScan' = fswClosed
    /\ UNCHANGED <<rtvars, tvars, xvars, fswClosed>>
    /\ UNCHANGED <<wm, wr, rClosed, rotating, notifyC, FSEventC, chansClosed,
                   inMap, opc, nopens, nreaders, fsState, avail, nappended,
                   wpanic, scanSaw, reads, rdAtRot>>

\* ---- Watcher.Scan --------------------------------------------------------
\* w.m.Lock()
ScanLock ==
    /\ ~wpanic /\ wpc = "lock" /\ MutexFree
    /\ wm' = "scan"
    /\ wpc' = "check"
    /\ scanSaw' = "none"
    /\ reads' = 0
    /\ UNCHANGED <<rtvars, tvars, xvars, fswClosed, lateScan>>
    /\ UNCHANGED <<wr, rClosed, rotating, notifyC, FSEventC, chansClosed,
                   inMap, opc, nopens, nreaders, fsState, avail, nappended,
                   wpanic, rdAtRot>>

\* if !w.rotating { ... }; if w.r == nil { return nil }
ScanCheck ==
    /\ ~wpanic /\ wpc = "check"
    /\ IF CheckDue /\ (IsRotated.rotated \/ IsRotated.truncated)
       THEN /\ nopens < MaxOpens
            /\ scanSaw' = IF IsRotated.rotated THEN "rotated" ELSE "truncated"
            /\ rotating' = TRUE
            /\ rdAtRot' = wr
            /\ nopens' = nopens + 1
            /\ opc' = [opc EXCEPT ![nopens + 1] =
                          IF IsRotated.rotated THEN Scheduled(wr) ELSE "ready"]
       ELSE UNCHANGED <<scanSaw, rotating, rdAtRot, nopens, opc>>
    /\ wpc' = AfterCheck(scanSaw', wr)
    /\ UNCHANGED <<rtvars, tvars, xvars, fswClosed, lateScan>>
    /\ UNCHANGED <<wm, wr, rClosed, notifyC, FSEventC, chansClosed, inMap,
                   nreaders, fsState, avail, nappended, wpanic, reads>>

\* line, err := w.r.ReadLine(): a line for the handler, io.EOF, or the error
\* of a reader that was closed.
ScanReadLine ==
    /\ ~wpanic /\ wpc = "read"
    /\ reads' = reads + 1
    /\ IF ~rClosed /\ avail > 0
       THEN avail' = avail - 1 /\ wpc' = "read"
       ELSE avail' = avail /\ wpc' = "unlock"
    /\ UNCHANGED <<rtvars, tvars, xvars, fswClosed, lateScan>>
    /\ UNCHANGED <<wm, wr, rClosed, rotating, notifyC, FSEventC, chansClosed,
                   inMap, opc, nopens, nreaders, fsState, nappended, wpanic,
                   scanSaw, rdAtRot>>

\* defer w.m.Unlock(), and back to the select.
ScanUnlock ==
    /\ ~wpanic /\ wpc = "unlock"
    /\ wm' = "free"
    /\ wpc' = "select"
    /\ UNCHANGED <<rtvars, tvars, xvars, fswClosed, lateScan>>
    /\ UNCHANGED <<wr, rClosed, rotating, notifyC, FSEventC, chansClosed,
                   inMap, opc, nopens, nreaders, fsState, avail, nappended,
                   wpanic, scanSaw, reads, rdAtRot>>

\* ---- Watcher.open, run by a timer or by a goroutine ------------------------
\* The delay of time.AfterFunc has passed.
TimerFire(k) ==
    /\ ~wpanic /\ opc[k] = "delayed"
    /\ opc' = [opc EXCEPT ![k] = "ready"]
    /\ UNCHANGED <<rtvars, tvars, xvars, fswClosed, lateScan>>
    /\ UNCHANGED <<wpc, wm, wr, rClosed, rotating, notifyC, FSEventC,
                   chansClosed, inMap, nopens, nreaders, fsState, avail,
                   nappended, wpanic, scanSaw, reads, rdAtRot>>

\* w.m.Lock()
OpenLock(k) ==
    /\ ~wpanic /\ opc[k] = "ready" /\ MutexFree
    /\ wm' = "open"
    /\ opc' = [opc EXCEPT ![k] = "clear"]
    /\ UNCHANGED <<rtvars, tvars, xvars, fswClosed, lateScan>>
    /\ UNCHANGED <<wpc, wr, rClosed, rotating, notifyC, FSEventC, chansClosed,
                   inMap, nopens, nreaders, fsState, avail, nappended, wpanic,
                   scanSaw, reads, rdAtRot>>

\* w.rotating = false; if w.r != nil { w.r.Close() }
OpenClear(k) ==
    /\ ~wpanic /\ opc[k] = "clear"
    /\ rotating' = FALSE
    /\ rClosed' = IF wr # NoReader THEN TRUE ELSE rClosed
    /\ opc' = [opc EXCEPT ![k] = "new"]
    /\ UNCHANGED <<rtvars, tvars, xvars, fswClosed, lateScan>>
    /\ UNCHANGED <<wpc, wm, wr, notifyC, FSEventC, chansClosed, inMap, nopens,
                   nreaders, fsState, avail, nappended, wpanic, scanSaw,
                   reads, rdAtRot>>

\* r, err := NewPositionReader(w.pe): on an error w.r is left as it is; on
\* success w.r = r, the entry records the file now at the path, and the
\* reader stands before the lines found in it.
OpenNew(k) ==
    /\ ~wpanic /\ opc[k] = "new"
    /\ \E err \in BOOLEAN :
          IF err
          THEN UNCHANGED <<wr, rClosed, nreaders, fsState, avail>>
          ELSE /\ wr' = nreaders + 1
               /\ nreaders' = nreaders + 1
               /\ rClosed' = FALSE
               /\ fsState' = "same"
               /\ \E n \in 0..1 : avail' = n
    /\ opc' = [opc EXCEPT ![k] = "notify"]
    /\ UNCHANGED <<rtvars, tvars, xvars, fswClosed, lateScan>>
    /\ UNCHANGED <<wpc, wm, rotating, notifyC, FSEventC, chansClosed, inMap,
                   nopens, nappended, wpanic, scanSaw, reads, rdAtRot>>

\* w.notify(), then the deferred w.m.Unlock().  A send on the closed notifyC
\* panics.
OpenNotify(k) ==
    /\ ~wpanic /\ opc[k] = "notify"
    /\ IF chansClosed
       THEN wpanic' = TRUE /\ notifyC' = notifyC
       ELSE wpanic' = FALSE /\ notifyC' = Notify(notifyC)
    /\ wm' = "free"
    /\ opc' = [opc EXCEPT ![k] = "done"]
    /\ UNCHANGED <<rtvars, tvars, xvars, fswClosed, lateScan>>
    /\ UNCHANGED <<wpc, wr, rClosed, rotating, FSEventC, chansClosed, inMap,
                   nopens, nreaders, fsState, avail, nappended, scanSaw,
                   reads, rdAtRot>>

\* ---- the watcher's surroundings ------------------------------------------
\* TailInput.fsEventHandler finds the watcher in i.watchers and sends the
\* event without blocking: dropped when FSEventC is full, a panic when it is
\* closed.  The handler returns when i.fsw.Events is closed.
FsFanout ==
    /\ ~wpanic /\ inMap /\ ~fswClosed
    /\ \E op \in FsOps :
          IF chansClosed
          THEN wpanic' = TRUE /\ FSEventC' = FSEventC
          ELSE /\ wpanic' = FALSE
               /\ FSEventC' = IF Len(FSEventC) < FSEventCap
                              THEN Append(FSEventC, op) ELSE FSEventC
    /\ UNCHANGED <<rtvars, tvars, xvars, fswClosed, lateScan>>
    /\ UNCHANGED <<wpc, wm, wr, rClosed, rotating, notifyC, chansClosed, inMap,
                   opc, nopens, nreaders, fsState, avail, nappended, scanSaw,
                   reads, rdAtRot>>

\* pathWatcher: i.watchers[f].Close() closes FSEventC and notifyC.
WClose ==
    /\ ~wpanic /\ inMap /\ ~chansClosed
    /\ chansClosed' = TRUE
    /\ UNCHANGED <<rtvars, tvars, xvars, fswClosed, lateScan>>
    /\ UNCHANGED <<wpc, wm, wr, rClosed, rotating, notifyC, FSEventC, inMap,
                   opc, nopens, nreaders, fsState, avail, nappended, wpanic,
                   scanSaw, reads, rdAtRot>>

\* pathWatcher: delete(i.watchers, f).
WDelete ==
    /\ ~wpanic /\ inMap /\ chansClosed
    /\ inMap' = FALSE
    /\ UNCHANGED <<rtvars, tvars, xvars, fswClosed, lateScan>>
    /\ UNCHANGED <<wpc, wm, wr, rClosed, rotating, notifyC, FSEventC,
                   chansClosed, opc, nopens, nreaders, fsState, avail,
                   nappended, wpanic, scanSaw, reads, rdAtRot>>

\* TailInput.Close: return i.fsw.Close().  Nothing else is told to stop.
TailClose ==
    /\ ~wpanic /\ ~fswClosed
    /\ fswClosed' = TRUE
    /\ UNCHANGED <<rtvars, tvars, xvars>>
    /\ UNCHANGED <<wpc, wm, wr, rClosed, rotating, notifyC, FSEventC,
                   chansClosed, inMap, opc, nopens, nreaders, fsState, avail,
                   nappended, wpanic, scanSaw, reads, rdAtRot, lateScan>>

\* A writer appends a complete line to the file the reader is on; after a
\* rotation a writer that still holds the old file goes on writing to it.
EnvAppend ==
    /\ ~wpanic /\ wr # NoReader /\ fsState # "truncated" /\ nappended < MaxLines
    /\ nappended' = nappended + 1
    /\ avail' = avail + 1
    /\ UNCHANGED <<rtvars, tvars, xvars, fswClosed, lateScan>>
    /\ UNCHANGED <<wpc, wm, wr, rClosed, rotating, notifyC, FSEventC,
                   chansClosed, inMap, opc, nopens, nreaders, fsState, wpanic,
                   scanSaw, reads, rdAtRot>>

\* The path is given to another file: the entry's identity no longer matches.
EnvRotate ==
    /\ ~wpanic /\ fsState # "rotated"
    /\ fsState' = "rotated"
    /\ UNCHANGED <<rtvars, tvars, xvars, fswClosed, lateScan>>
    /\ UNCHANGED <<wpc, wm, wr, rClosed, rotating, notifyC, FSEventC,
                   chansClosed, inMap, opc, nopens, nreaders, avail, nappended,
                   wpanic, scanSaw, reads, rdAtRot>>

\* The file is cut to below the recorded offset: nothing is left to read at
\* the reader's place.
EnvTruncate ==
    /\ ~wpanic /\ fsState = "same" /\ wr # NoReader
    /\ fsState' = "truncated"
    /\ avail' = 0
    /\ UNCHANGED <<rtvars, tvars, xvars, fswClosed, lateScan>>
    /\ UNCHANGED <<wpc, wm, wr, rClosed, rotating, notifyC, FSEventC,
                   chansClosed, inMap, opc, nopens, nreaders, nappended, wpanic,
                   scanSaw, reads, rdAtRot>>

WLoopNext == WRecvNotify \/ WRecvClosed \/ WRecvFSEvent \/ WTick

ScanNext == ScanLock \/ ScanCheck \/ ScanReadLine \/ ScanUnlock

OpenNext(k) ==
    TimerFire(k) \/ OpenLock(k) \/ OpenClear(k) \/ OpenNew(k) \/ OpenNotify(k)

WEnvNext ==
    FsFanout \/ WClose \/ WDelete \/ TailClose \/ EnvAppend \/ EnvRotate \/ EnvTruncate

WatcherNext ==
    \/ WLoopNext
    \/ ScanNext
    \/ \E k \in OpenIds : OpenNext(k)
    \/ WEnvNext

(***************************************************************************)
(* TailInput.pathWatcher and the watchers map (in_tail: TailInput).        *)
(*                                                                         *)
(* A path is the sequence of its segments ("a//b" is <<"a", "", "b">>);    *)
(* the paths here are relative.  filepath.Glob and filepath.Clean are the  *)
(* standard library's: a pattern without metacharacters yields the pattern *)
(* itself, as written, when the file exists; a pattern with metacharacters *)
(* yields the matching names joined to the directory, which are clean and  *)
(* distinct; a malformed pattern yields an error.                          *)
(***************************************************************************)
\* Segments of the longest path written in a configuration.
MaxPathLen == 2
\* Iterations of the path-watcher loop in one run.
MaxIters == 3

Segments == {"a", "b", ".", "..", ""}

\* The paths a configuration can name without metacharacters.
RawPaths ==
    {p \in UNION {[1..n -> Segments] : n \in 1..MaxPathLen} : p[1] # ""}

\* The names a pattern with metacharacters can match, in Glob's order.
MatchNames == <<<<"a">>, <<"b">>, <<"c">>>>

\* Mutation of Clean: the name goes into the map as Glob returned it.
Uncleaned(p) == p

\* filepath.Clean on the segments, left to right: empty and "." segments are
\* dropped, ".." takes back the segment before it, and nothing left is ".".
RECURSIVE CleanOnto(_, _)
CleanOnto(done, rest) ==
    IF rest = <<>> THEN (IF done = <<>> THEN <<".">> ELSE done)
    ELSE LET s == Head(rest)
         IN IF s \in {"", "."} THEN CleanOnto(done, Tail(rest))
            ELSE IF s = ".." /\ done # <<>> /\ done[Len(done)] # ".."
                 THEN CleanOnto(SubSeq(done, 1, Len(done) - 1), Tail(rest))
                 ELSE CleanOnto(Append(done, s), Tail(rest))

Clean(p) == CleanOnto(<<>>, p)

\* What filepath.Glob(i.conf.Path) can return for the configured pattern.
GlobResults(c) ==
    IF c.kind = "literal" THEN {<<>>, <<c.path>>}
    ELSE {SelectSeq(MatchNames, LAMBDA n : n \in S) :
             S \in SUBSET {MatchNames[i] : i \in 1..Len(MatchNames)}}

NoWatchers == [p \in {} |-> 0]
NoChanges == [p \in {} |-> FALSE]


\* Init and Start have returned: the map is empty and pathWatcher starts.
TInit ==
    /\ conf \in [kind : {"meta", "bad"}, path : {<<>>}]
                \cup [kind : {"literal"}, path : RawPaths]
    /\ pwpc = "glob"
    /\ watchers = NoWatchers
    /\ changes = NoChanges
    /\ closedWs = {}
    /\ fswPaths = {}
    /\ nwatchers = 0
    /\ iter = 0
    /\ globbed = <<>>
    /\ prevWatchers = NoWatchers

\* Mutation of Toggle: a name that is in the map is left in it.
ToggleKeeps(ch, f) ==
    IF f \in DOMAIN ch
    THEN ch
    ELSE [p \in DOMAIN ch \cup {f} |-> IF p = f THEN TRUE ELSE ch[p]]

\* changes[f] = true, or delete(changes, f) for a name that is in it.
Toggle(ch, f) ==
    IF f \in DOMAIN ch
    THEN [p \in DOMAIN ch \ {f} |-> ch[p]]
    ELSE [p \in DOMAIN ch \cup {f} |-> IF p = f THEN TRUE ELSE ch[p]]

\* for _, f := range files { f = filepath.Clean(f); ... }
RECURSIVE OverFiles(_, _)
OverFiles(ch, files) ==
    IF files = <<>> THEN ch
    ELSE OverFiles(Toggle(ch, Clean(Head(files))), Tail(files))

\* The changes map of an iteration: every watched path as false, then the
\* globbed names over it.
Changes(ws, files) == OverFiles([p \in DOMAIN ws |-> FALSE], files)

\* After the range over changes: <-tick.
AfterChange(ch) == IF DOMAIN ch = {} THEN "tick" ELSE "apply"

\* files, err := filepath.Glob(i.conf.Path) with an error: log and return.
PwGlobErr ==
    /\ pwpc = "glob" /\ conf.kind = "bad"
    /\ pwpc' = "exited"
    /\ UNCHANGED <<rtvars, wvars, xvars>>
    /\ UNCHANGED <<conf, watchers, changes, closedWs, fswPaths, nwatchers, iter,
                   globbed, prevWatchers>>

\* files, err := filepath.Glob(i.conf.Path), and the changes map.
PwGlob ==
    /\ pwpc = "glob" /\ conf.kind # "bad" /\ iter < MaxIters
    /\ \E files \in GlobResults(conf) :
          /\ globbed' = files
          /\ changes' = Changes(watchers, files)
    /\ prevWatchers' = watchers
    /\ iter' = iter + 1
    /\ pwpc' = AfterChange(changes')
    /\ UNCHANGED <<rtvars, wvars, xvars>>
    /\ UNCHANGED <<conf, watchers, closedWs, fswPaths, nwatchers>>

\* if added: i.watchers[f] = NewWatcher(...); i.fsw.Add(f)
PwAdd(f) ==
    /\ pwpc = "apply" /\ f \in DOMAIN changes /\ changes[f]
    /\ nwatchers' = nwatchers + 1
    /\ watchers' = [p \in DOMAIN watchers \cup {f} |->
                       IF p = f THEN nwatchers + 1 ELSE watchers[p]]
    /\ fswPaths' = fswPaths \cup {f}
    /\ changes' = [p \in DOMAIN changes \ {f} |-> changes[p]]
    /\ pwpc' = AfterChange(changes')
    /\ UNCHANGED <<rtvars, wvars, xvars>>
    /\ UNCHANGED <<conf, closedWs, iter, globbed, prevWatchers>>

\* else: i.fsw.Remove(f); i.watchers[f].Close(); delete(i.watchers, f)
PwRemove(f) ==
    /\ pwpc = "apply" /\ f \in DOMAIN changes /\ ~changes[f]
    /\ fswPaths' = fswPaths \ {f}
    /\ closedWs' = closedWs \cup {watchers[f]}
    /\ watchers' = [p \in DOMAIN watchers \ {f} |-> watchers[p]]
    /\ changes' = [p \in DOMAIN changes \ {f} |-> changes[p]]
    /\ pwpc' = AfterChange(changes')
    /\ UNCHANGED <<rtvars, wvars, xvars>>
    /\ UNCHANGED <<conf, nwatchers, iter, globbed, prevWatchers>>

\* <-tick
PwTick ==
    /\ pwpc = "tick"
    /\ pwpc' = "glob"
    /\ UNCHANGED <<rtvars, wvars, xvars>>
    /\ UNCHANGED <<conf, watchers, changes, closedWs, fswPaths, nwatchers, iter,
                   globbed, prevWatchers>>

\* The names the running iteration handles, each once.
Changed == DOMAIN changes

TailNext ==
    \/ PwGlobErr
    \/ PwGlob
    \/ \E f \in Changed : PwAdd(f)
    \/ \E f \in Changed : PwRemove(f)
    \/ PwTick

(***************************************************************************)
(* realTag (in_tail).  A string is the sequence of its characters.         *)
(***************************************************************************)
\* Characters of the longest tag and the longest path.
MaxTagLen == 3

Chars == {"*", "/", "a"}

Strings == UNION {[1..n -> Chars] : n \in 0..MaxTagLen}

\* strings.Contains(s, c) for a one-character c.
Contains(s, c) == \E i \in 1..Len(s) : s[i] = c

\* strings.Trim(s, c): the characters c at both ends go.
RECURSIVE TrimLeft(_, _)
TrimLeft(s, c) ==
    IF s # <<>> /\ Head(s) = c THEN TrimLeft(Tail(s), c) ELSE s

RECURSIVE TrimRight(_, _)
TrimRight(s, c) ==
    IF s # <<>> /\ s[Len(s)] = c
    THEN TrimRight(SubSeq(s, 1, Len(s) - 1), c) ELSE s

Trim(s, c) == TrimRight(TrimLeft(s, c), c)

\* Mutation of ReplaceAll: strings.Replace(s, c, by, 1).
ReplaceFirst(s, c, by) ==
    IF ~Contains(s, c) THEN s
    ELSE LET i == CHOOSE k \in 1..Len(s) :
                     s[k] = c /\ \A j \in 1..(k - 1) : s[j] # c
         IN SubSeq(s, 1, i - 1) \o by \o SubSeq(s, i + 1, Len(s))

\* strings.Replace(s, c, by, -1): every character c becomes the string by.
RECURSIVE ReplaceAll(_, _, _)
ReplaceAll(s, c, by) ==
    IF s = <<>> THEN <<>>
    ELSE (IF Head(s) = c THEN by ELSE <<Head(s)>>) \o ReplaceAll(Tail(s), c, by)

realTag(tag, path) ==
    IF ~Contains(tag, "*") THEN tag
    ELSE ReplaceAll(tag, "*", ReplaceAll(Trim(path, "/"), "/", <<".">>))

GInit ==
    /\ tagIn \in Strings
    /\ pathIn \in Strings
    /\ tagOut = <<>>
    /\ tgpc = "call"

\* tag: realTag(i.conf.Tag, pe.Path)
RealTagCall ==
    /\ tgpc = "call"
    /\ tagOut' = realTag(tagIn, pathIn)
    /\ tgpc' = "done"
    /\ UNCHANGED <<rtvars, wvars, tvars, pvars>>
    /\ UNCHANGED <<tagIn, pathIn>>

(***************************************************************************)
(* TailInput.Init of the tail input units of one process: each runs in its *)
(* Exec Unit's goroutine and uses the global map posFiles with no lock.    *)
(* Two accesses to the map that are both about to happen, one of them a    *)
(* write, are a data race: the Go runtime may end the process on it.       *)
(***************************************************************************)
PosNames == {"p", "q"}
NoPosFile == 0

PInit ==
    /\ posName \in [UnitIds -> PosNames]
    /\ posFiles = [n \in {} |-> NoPosFile]
    /\ ipc = [u \in UnitIds |-> "lookup"]
    /\ ipf = [u \in UnitIds |-> NoPosFile]
    /\ heldPf = [u \in UnitIds |-> NoPosFile]
    /\ nPosFiles = [n \in PosNames |-> 0]
    /\ pcrash = FALSE

\* Another unit is about to read or write the map as well.
MapRace(u, writes) ==
    \E v \in UnitIds \ {u} :
        \/ ipc[v] = "store"
        \/ writes /\ ipc[v] = "lookup"

\* pf, ok := posFiles[i.conf.PosFile]
MapLookup(m, n) == IF n \in DOMAIN m THEN m[n] ELSE NoPosFile

\* posFiles[i.conf.PosFile] = pf
MapStore(m, n, pf) ==
    [k \in DOMAIN m \cup {n} |-> IF k = n THEN pf ELSE m[k]]

\* The PositionFile instances made so far are numbered in the order made.
NewPosFile == 1 + nPosFiles["p"] + nPosFiles["q"]

\* pf, ok := posFiles[i.conf.PosFile]; with ok, i.pf = pf and return.
InitLookup(u) ==
    /\ ~pcrash /\ ipc[u] = "lookup"
    /\ \E crash \in {FALSE, MapRace(u, FALSE)} :
          /\ pcrash' = crash
          /\ IF crash THEN UNCHANGED <<ipc, ipf, heldPf>>
             ELSE LET pf == MapLookup(posFiles, posName[u])
                  IN /\ ipf' = [ipf EXCEPT ![u] = pf]
                     /\ IF pf # NoPosFile
                        THEN /\ heldPf' = [heldPf EXCEPT ![u] = pf]
                             /\ ipc' = [ipc EXCEPT ![u] = "done"]
                        ELSE /\ heldPf' = heldPf
                             /\ ipc' = [ipc EXCEPT ![u] = "new"]
    /\ UNCHANGED <<rtvars, wvars, tvars, gvars>>
    /\ UNCHANGED <<posName, posFiles, nPosFiles>>

\* pf, err = NewPositionFile(i.conf.PosFile); with an error Init returns it.
InitNew(u) ==
    /\ ~pcrash /\ ipc[u] = "new"
    /\ \E err \in BOOLEAN :
          IF err
          THEN /\ ipc' = [ipc EXCEPT ![u] = "failed"]
               /\ UNCHANGED <<ipf, nPosFiles>>
          ELSE /\ ipf' = [ipf EXCEPT ![u] = NewPosFile]
               /\ nPosFiles' = [nPosFiles EXCEPT ![posName[u]] = @ + 1]
               /\ ipc' = [ipc EXCEPT ![u] = "store"]
    /\ UNCHANGED <<rtvars, wvars, tvars, gvars>>
    /\ UNCHANGED <<posName, posFiles, heldPf, pcrash>>

\* posFiles[i.conf.PosFile] = pf; i.pf = pf
InitStore(u) ==
    /\ ~pcrash /\ ipc[u] = "store"
    /\ \E crash \in {FALSE, MapRace(u, TRUE)} :
          /\ pcrash' = crash
          /\ IF crash THEN UNCHANGED <<posFiles, heldPf, ipc>>
             ELSE /\ posFiles' = MapStore(posFiles, posName[u], ipf[u])
                  /\ heldPf' = [heldPf EXCEPT ![u] = ipf[u]]
                  /\ ipc' = [ipc EXCEPT ![u] = "done"]
    /\ UNCHANGED <<rtvars, wvars, tvars, gvars>>
    /\ UNCHANGED <<posName, ipf, nPosFiles>>

PosNext == \E u \in UnitIds : InitLookup(u) \/ InitNew(u) \/ InitStore(u)

\* No Init is running: both units have the position file "p".
PQuiet ==
    /\ posName = [u \in UnitIds |-> "p"]
    /\ posFiles = [n \in {"p"} |-> 1]
    /\ ipc = [u \in UnitIds |-> "done"]
    /\ ipf = [u \in UnitIds |-> 1]
    /\ heldPf = [u \in UnitIds |-> 1]
    /\ nPosFiles = [n \in PosNames |-> IF n = "p" THEN 1 ELSE 0]
    /\ pcrash = FALSE

\* No tag is being made.
GQuiet == GInit /\ tagIn = <<>> /\ pathIn = <<>>

XQuiet == GQuiet /\ PQuiet

(***************************************************************************)
(* The specifications.                                                     *)
(***************************************************************************)
\* The runtime before its first read, with one choice of plugin.
RtQuiet == RtInit /\ mailboxCap = 1 /\ kind = "bare" /\ ~logEmits

\* A Watcher whose first open succeeded.
WQuiet == WInit /\ wr = 1

\* A tail input with a pattern.
TQuiet == TInit /\ conf.kind = "meta"

Init == RtInit /\ WQuiet /\ TQuiet /\ XQuiet

RtNext ==
    \/ RtReadErr
    \/ LoopNext
    \/ \E u \in UnitIds : StopperNext(u)
    \/ \E u \in UnitIds : UnitNext(u)

Next == RtNext

Spec == Init /\ [][Next]_vars

\* Every goroutine that can take a step gets to take it.
FairSpec ==
    /\ Spec
    /\ WF_vars(LoopNext)
    /\ \A u \in UnitIds :
          /\ WF_vars(StopperNext(u))
          /\ WF_vars(UnitNext(u))

WatcherInit == RtQuiet /\ WInit /\ TQuiet /\ XQuiet

WatcherSpec == WatcherInit /\ [][WatcherNext]_vars

\* The ticker fires every 10 s and select takes a ready case, so a loop that
\* waits in its select comes to take the tick; a Scan and an open that can
\* take their next step take it; a timer that was set fires.  Nothing is
\* asked of the surroundings.
FairWatcherSpec ==
    /\ WatcherInit
    /\ [][WatcherNext]_vars
    /\ WF_vars(WTick)
    /\ WF_vars(ScanNext)
    /\ \A k \in OpenIds : WF_vars(OpenNext(k))

TailInit == RtQuiet /\ WQuiet /\ TInit /\ XQuiet

TailSpec == TailInit /\ [][TailNext]_vars

TagInit == RtQuiet /\ WQuiet /\ TQuiet /\ GInit /\ PQuiet

TagNext == RealTagCall

TagSpec == TagInit /\ [][TagNext]_vars

PosInit == RtQuiet /\ WQuiet /\ TQuiet /\ GQuiet /\ PInit

PosSpec == PosInit /\ [][PosNext]_vars

(***************************************************************************)
(* Properties of the plugin runtime.                                       *)
(***************************************************************************)
\* A unit runs the handler of the frame it took: the step that leaves
\* "handle" (or dies in it).
Handles(u, t) ==
    /\ upc[u] = "handle"
    /\ ucur[u].type = t
    /\ upc'[u] # "handle" \/ crashed'

\* The handler of the frame invokes a plugin callback.
InvokesCallback(u) ==
    \/ Handles(u, "Configure")
    \/ Handles(u, "Start")
    \/ Handles(u, "Event") /\ kind # "bare"
    \/ Handles(u, "Stop")

\* The frames read for unit u that it has not finished with, as the
\* program holds them: in its hands, in its mailbox, in the runtime's hands.
InFlight(u) ==
    (IF upc[u] = "handle" /\ ucur[u].type # "Stop" THEN <<ucur[u]>> ELSE <<>>)
    \o SelectSeq(msgC[u], LAMBDA m : m.type # "Stop")
    \o (IF rtpc = "send" /\ rtmsg.unit = u THEN <<rtmsg>> ELSE <<>>)

\* C1. Shutdown ordering: Terminated is written only after every Exec Unit
\* of the units table has dequeued its Stop message, its plugin's Close has
\* returned and the unit has closed doneC.
C1_ShutdownOrder ==
    nTerminated > 0 =>
        \A u \in units :
            /\ doneC[u]
            /\ upc[u] = "done"
            /\ msgC[u] = <<>>
            /\ ucur[u].type = "Stop"
            /\ lastCall[u].cb = "Close"

\* Terminated was written with two units in the table.
C1_Witness == nTerminated = 1 /\ units = UnitIds

\* C2. Shutdown liveness (the claim as stated): once the event loop has read
\* a Stop it eventually writes Terminated and exits, whatever Init and Start
\* returned.  A process that died of a nil buffer is left out of it.
C2_ShutdownLiveness ==
    stopRead ~> ((nTerminated = 1 /\ rtpc = "exited") \/ crashed)

\* C3. Mailbox order: the frames read for a unit reach one Exec Unit, which
\* handles them in the order they were read: the frame a unit is handling is
\* the oldest unhandled frame read for it, and the frames behind it wait in
\* pipe order, none lost, none added.
C3_MailboxOrder ==
    \A u \in UnitIds :
        /\ created[u] <= 1
        /\ pending[u] = InFlight(u)
        /\ (upc[u] = "handle" /\ ucur[u].type # "Stop") =>
               (pending[u] # <<>> /\ Head(pending[u]) = ucur[u])

\* A unit handles its second frame, after a callback for the first, while a
\* third frame waits.
C3_Witness ==
    \E u \in UnitIds :
        /\ upc[u] = "handle"
        /\ ucur[u].id = 2
        /\ lastCall[u].cb # "none"
        /\ Len(msgC[u]) = 1
        /\ Len(pending[u]) = 2

\* C4. Failure isolation (the claim as stated): once a unit's Init or Start
\* has failed, the runtime still gets every frame into its mailbox and goes
\* back to reading the pipe, however many frames the failed unit is sent.
C4_FailureIsolation ==
    \A u \in UnitIds :
        (setup[u].failed /\ rtpc = "send") ~> (rtpc # "send" \/ crashed)

\* C7. Exactly-once Terminated: at most one Terminated is written, only by
\* the loop that has read a Stop, and after it the loop reads and dispatches
\* nothing.
C7_Step ==
    /\ nTerminated' <= 1
    /\ nTerminated' # nTerminated => (stopRead /\ rtpc = "stop")
    /\ nTerminated > 0 =>
          /\ rtpc' = "exited"
          /\ nread' = nread
          /\ nrouted' = nrouted
          /\ units' = units
          /\ rtmsg' = rtmsg

C7_TerminatedOnce == [][C7_Step]_vars

\* Terminated was written while the parent had more frames to send.
C7_Witness == nTerminated = 1 /\ nread < MaxMsgs /\ rtpc = "exited"

\* C8. Exec Unit state machine (the claim as stated): for any sequence of
\* frames, Start is invoked only after an Init has returned nil, Filter and
\* Encode only after a Start has returned nil, and no callback is invoked
\* after an Init or Start error.
C8_StateMachineStep(u) ==
    /\ Handles(u, "Start") => setup[u].initOk
    /\ (Handles(u, "Event") /\ kind # "bare") => setup[u].startOk
    /\ InvokesCallback(u) => ~setup[u].failed

C8_StateMachine == [][\A u \in UnitIds : C8_StateMachineStep(u)]_vars

\* What the unit does keep to: for the frames of a unit that the parent
\* sends as Configure, Start, Events, Start is invoked only after Init has
\* returned nil and Filter / Encode only after Start has returned nil; and
\* for any sequence, no callback is invoked after an Init or Start error.
InOrderStep(u) ==
    /\ (Handles(u, "Start") /\ ucur[u].ord) => setup[u].initOk
    /\ (Handles(u, "Event") /\ kind # "bare" /\ ucur[u].ord) => setup[u].startOk
    /\ InvokesCallback(u) => ~setup[u].failed

InOrderFramesKeepStates == [][\A u \in UnitIds : InOrderStep(u)]_vars

\* C9. Filter pass-through on error: when Filter returns an error, whatever
\* result comes with it, the unit writes exactly one EventChain, carrying the
\* original event and the unit's own id; when Filter returns no error and a
\* nil result, the unit writes nothing.
C9_Step(u) ==
    (Handles(u, "Event") /\ kind = "filter") =>
        LET c == lastCall'[u]
            chains == SelectSeq(outPipe', LAMBDA m : m.type = "EventChain")
        IN /\ c.cb = "Filter"
           /\ c.err => chains = <<OutMsg("EventChain", u, ucur[u].ev)>>
           /\ (~c.err /\ c.res = Nil) => outPipe' = <<>>

C9_FilterPassThrough == [][\A u \in UnitIds : C9_Step(u)]_vars

\* Filter returned an error together with another event, and the frame just
\* written is the EventChain of the original event.
C9_Witness ==
    \E u \in UnitIds :
        /\ lastCall[u] = CallRec("Filter", TRUE, OtherEvent)
        /\ outPipe # <<>>
        /\ outPipe[Len(outPipe)] = OutMsg("EventChain", u, "e1")

(***************************************************************************)
(* Properties of the Watcher.                                              *)
(***************************************************************************)
\* The step is a ReadLine call of the running Scan.
ReadLineCall == reads' = reads + 1

\* The Scan, or an open, is between its Lock and its Unlock.
InScan == wpc \in {"check", "read", "unlock"}

InOpen(k) == opc[k] \in {"clear", "new", "notify"}

OpenRunning == \E k \in OpenIds : InOpen(k)

\* C5 (the claim as stated): from the Scan that sets rotating to the end of
\* the open it scheduled, no ReadLine call is made on the watcher's reader.
C5_RotationSafety == [][ReadLineCall => (~rotating /\ ~OpenRunning)]_vars

\* C5 (amended): a Scan that sees a truncation makes no ReadLine call in its
\* remainder, and no ReadLine call is made while open runs; a Scan that sees
\* a rotation, and every Scan that runs before the scheduled open, reads
\* on: while rotating is set each ReadLine call is on the reader that was
\* present when rotating was set, never on one opened since.
C5_ReadsOldReaderOnly ==
    [][ReadLineCall =>
          /\ scanSaw # "truncated"
          /\ ~OpenRunning
          /\ rotating => (wr # NoReader /\ wr = rdAtRot)]_vars

\* A Scan later than the one that saw the rotation has called ReadLine while
\* rotating is set and the open is still to come.
C5_Witness ==
    /\ rotating
    /\ wpc = "read"
    /\ scanSaw = "none"
    /\ reads > 0
    /\ \E k \in OpenIds : opc[k] \in {"delayed", "ready"}

\* C6. Scan mutual exclusion: at any moment at most one of the Scan and the
\* scheduled opens is between its Lock and its Unlock, and it holds the
\* mutex.
C6_MutualExclusion ==
    /\ Cardinality({k \in OpenIds : InOpen(k)}) + (IF InScan THEN 1 ELSE 0) <= 1
    /\ InScan => wm = "scan"
    /\ OpenRunning => wm = "open"

\* The dispatch loop has called Scan, which waits at Lock while a scheduled
\* open is in the middle of its body.
C6_Witness == wpc = "lock" /\ \E k \in OpenIds : opc[k] = "new"

(***************************************************************************)
(* Properties of the tail input.                                           *)
(***************************************************************************)
\* A path filepath.Clean leaves as it is.
IsClean(p) ==
    \/ p = <<".">>
    \/ \A i \in 1..Len(p) :
          /\ p[i] \notin {"", "."}
          /\ p[i] = ".." => \A j \in 1..(i - 1) : p[j] = ".."

WatchersOf(ws) == {ws[p] : p \in DOMAIN ws}

\* C10. Glob membership symmetry: when an iteration of pathWatcher reaches
\* its tick, the keys of the watchers map are the cleaned paths Glob returned
\* in that iteration; the Watchers of paths that still match are the ones
\* that were there and are open, every path that no longer matches has its
\* Watcher closed and its registration removed, and every newly matched
\* path has a Watcher made in this iteration.
C10_GlobMembership ==
    pwpc = "tick" =>
        LET now == {Clean(globbed[i]) : i \in 1..Len(globbed)}
            before == DOMAIN prevWatchers
        IN /\ DOMAIN watchers = now
           /\ \A p \in now : IsClean(p)
           /\ \A p \in now \cap before :
                 watchers[p] = prevWatchers[p] /\ watchers[p] \notin closedWs
           /\ \A p \in now \ before :
                 /\ watchers[p] \notin WatchersOf(prevWatchers) \cup closedWs
                 /\ p \in fswPaths
           /\ \A p \in before \ now :
                 prevWatchers[p] \in closedWs /\ p \notin fswPaths
           /\ \A p, q \in now : watchers[p] = watchers[q] => p = q

\* An iteration has ended in which one Watcher was kept, one closed and one
\* made.
C10_Witness ==
    /\ pwpc = "tick"
    /\ DOMAIN watchers \cap DOMAIN prevWatchers # {}
    /\ DOMAIN watchers \ DOMAIN prevWatchers # {}
    /\ DOMAIN prevWatchers \ DOMAIN watchers # {}

(***************************************************************************)
(* Properties of realTag.                                                  *)
(***************************************************************************)
Occurrences(s, c) == Cardinality({i \in 1..Len(s) : s[i] = c})

\* C11 (the claim as stated): for every tag and every path the result of
\* realTag contains no "*", and a tag without "*" comes back as it is.
C11_TagTemplating ==
    tgpc = "done" =>
        /\ ~Contains(tagOut, "*")
        /\ ~Contains(tagIn, "*") => tagOut = tagIn

\* C11 (amended): a tag without "*" comes back as it is; the result
\* contains a "*" exactly when the tag contains one and the path contains
\* one too; the path goes in without the slashes at its ends, and brings
\* no slash into the tag.
C11_TagTemplatingStarFreePaths ==
    tgpc = "done" =>
        /\ ~Contains(tagIn, "*") => tagOut = tagIn
        /\ Contains(tagOut, "*") <=> (Contains(tagIn, "*") /\ Contains(pathIn, "*"))
        /\ (tagIn = <<"*">> /\ tagOut # <<>>) =>
               (Head(tagOut) # "." /\ tagOut[Len(tagOut)] # ".")
        /\ Occurrences(tagOut, "/") = Occurrences(tagIn, "/")

\* The tag "a*" was made for the path "a/a".
C11_Witness ==
    /\ tgpc = "done"
    /\ tagIn = <<"a", "*">>
    /\ pathIn = <<"a", "/", "a">>
    /\ tagOut = <<"a", "a", ".", "a">>

(***************************************************************************)
(* Properties of TailInput.Init.                                           *)
(***************************************************************************)
\* C12. Single shared PositionFile (the claim as stated): NewPositionFile
\* makes at most one PositionFile per name, and the units that name the
\* same pos_file and have finished Init hold the same instance, also when
\* their Inits run side by side.
C12_SharedPositionFile ==
    /\ \A n \in PosNames : nPosFiles[n] <= 1
    /\ \A u, v \in UnitIds :
          (ipc[u] = "done" /\ ipc[v] = "done" /\ posName[u] = posName[v]) =>
              heldPf[u] = heldPf[v]

(***************************************************************************)
(* More properties of the plugin runtime.                                  *)
(***************************************************************************)
\* The step in which pipe.Read() returns an error: the loop leaves its read
\* without having taken a frame.
ReadErrStep == rtpc = "read" /\ rtpc' # "read" /\ nread' = nread

\* q is what is left of mailbox p after the unit took frames from it.
IsSuffix(q, p) ==
    Len(q) <= Len(p) /\ q = SubSeq(p, Len(p) - Len(q) + 1, Len(p))

\* C13. Pipe read error: the step in which Read returns an error ends the
\* loop, writes nothing, starts no execUnit.stop and leaves the units table
\* and the mailboxes as they are; and from then on the runtime writes no
\* Terminated, sends no Stop, closes no mailbox and adds nothing to one
\* (the units go on taking what is in them).
C13_Step ==
    /\ ReadErrStep =>
          /\ rtpc' = "exited"
          /\ outPipe' = <<>>
          /\ nTerminated' = nTerminated
          /\ UNCHANGED <<stpc, units, msgC, chClosed, created>>
    /\ (rtpc = "exited" /\ ~stopRead) =>
          /\ rtpc' = "exited"
          /\ nTerminated' = 0
          /\ \A m \in {outPipe'[i] : i \in 1..Len(outPipe')} :
                m.type \in {"Event", "EventChain"}
          /\ UNCHANGED <<stpc, units, chClosed, created, nread>>
          /\ \A u \in UnitIds : IsSuffix(msgC'[u], msgC[u])

C13_ReadErrorEndsLoop == [][C13_Step]_vars

\* The loop has ended on a read error while a unit has a frame in its
\* mailbox.
C13_Witness ==
    /\ rtpc = "exited"
    /\ ~stopRead
    /\ \E u \in units : msgC[u] # <<>>

(***************************************************************************)
(* More properties of the Watcher.                                         *)
(***************************************************************************)
\* The step of open k in which NewPositionReader fails: open goes on to
\* notify and no reader was made.
OpenFailedStep(k) ==
    opc[k] = "new" /\ opc'[k] = "notify" /\ nreaders' = nreaders

\* The last step of open k.
OpenEndStep(k) == opc[k] = "notify" /\ opc'[k] = "done"

\* C14. Open failure leaves the reader absent: when NewPositionReader fails
\* in open the watcher has no reader afterwards, whether or not it had one
\* before; and every open ends with rotating = false.
C14_Step ==
    \A k \in OpenIds :
       /\ OpenFailedStep(k) => wr' = NoReader
       /\ OpenEndStep(k) => ~rotating'

C14_OpenFailureLeavesNoReader == [][C14_Step]_vars

\* A complete line lies beyond the offset of the open reader of a watcher
\* that is not closed.
LinePending ==
    /\ ~chansClosed
    /\ wr # NoReader /\ ~rClosed
    /\ avail > 0

\* A Scan holds the mutex and stands at ReadLine with that line before it:
\* its next step hands the line to the handler.
LineReached ==
    /\ wm = "scan" /\ wpc = "read"
    /\ wr # NoReader /\ ~rClosed
    /\ avail > 0

\* The Watcher was closed or the process has panicked.
WatcherGone == chansClosed \/ wpanic

\* C15. Tick liveness backstop: for an open Watcher with a reader present, a
\* complete line beyond the offset is eventually reached by a Scan and passed
\* to the handler without any filesystem event being delivered (unless the
\* file is truncated or the Watcher closed first, or the bound on opens is
\* met); the fan-out can always take its step, full channel or not, and
\* FSEventC never holds more than its capacity.
C15_TickBackstop ==
    /\ LinePending ~>
          (LineReached \/ WatcherGone \/ fsState = "truncated" \/ nopens = MaxOpens)
    /\ [](Len(FSEventC) <= FSEventCap)
    /\ []((inMap /\ ~fswClosed /\ ~wpanic) => ENABLED FsFanout)

\* The part of C15 that holds: while the file at the path stays the one the
\* reader is on, the tick alone brings a Scan to every line.
TickBackstopOnSameFile ==
    /\ (LinePending /\ fsState = "same") ~>
          (LineReached \/ WatcherGone \/ fsState # "same")
    /\ [](Len(FSEventC) <= FSEventCap)
    /\ []((inMap /\ ~fswClosed /\ ~wpanic) => ENABLED FsFanout)

\* The dispatch loop leaves its select for a new Scan.
ScanStartStep == wpc = "select" /\ wpc' = "lock"

\* C16. Watcher close stops the dispatch loop: once Close has closed the
\* channels the loop starts no new Scan (one in flight may finish), and the
\* loop comes to its end.
C16_CloseStopsLoop ==
    /\ [][ScanStartStep => ~chansClosed]_vars
    /\ chansClosed ~> (wpc = "exited" \/ wpanic)

\* The opens that were scheduled and have not returned.
PendingOpens == {k \in OpenIds : opc[k] \in {"delayed", "ready", "clear", "new", "notify"}}

\* The step of Scan that follows Lock: the rotation check.
ScanCheckStep == wpc = "check" /\ wpc' # "check"

\* C17. Rotation is handled once: a Scan that finds rotating set does not
\* ask IsRotated and schedules no open; at most one open is pending at any
\* moment, one is pending while rotating is set, and only open clears the
\* flag.
C17_Step ==
    /\ (ScanCheckStep /\ rotating) =>
          /\ scanSaw' = "none"
          /\ UNCHANGED <<opc, nopens, rotating>>
    /\ (rotating /\ ~rotating') =>
          \E k \in OpenIds : opc[k] = "clear" /\ opc'[k] = "new"

C17_RotationOnce ==
    /\ [](Cardinality(PendingOpens) <= 1)
    /\ [](rotating => PendingOpens # {})
    /\ [][C17_Step]_vars

\* A Scan has passed its check with rotating set while the file at the path
\* is still another one than the reader's.
C17_Witness ==
    /\ rotating /\ fsState # "same"
    /\ wm = "scan" /\ wpc \in {"read", "unlock"} /\ scanSaw = "none"

\* C18. No send on a closed Watcher channel: neither the fan-out of
\* filesystem events nor the notify of a pending open sends on FSEventC or
\* notifyC after Close has closed them (wpanic records such a send, which
\* panics).
C18_NoSendOnClosedChannel == ~wpanic

(***************************************************************************)
(* The buffer of an output unit, and what is written after shutdown.       *)
(***************************************************************************)
\* The step in which unit u calls buf.Push (an Event whose Encode gave a
\* Sizer) or buf.Close (a Stop).
BufferUsed(u) ==
    /\ upc[u] = "handle" /\ kind = "output"
    /\ \/ /\ ucur[u].type = "Event"
          /\ upc'[u] = "loop"
          /\ lastCall'[u] = CallRec("Encode", FALSE, "sizer")
       \/ /\ ucur[u].type = "Stop"
          /\ (upc'[u] = "loop" \/ crashed')

\* C19. Buffer exists before use: an output unit calls Push or Close on its
\* buffer only when an earlier BufferOption has made the buffer.
C19_BufferBeforeUse ==
    [][\A u \in UnitIds : BufferUsed(u) => buf[u] # "nil"]_vars

\* The step of Scan in which ReadLine returns a line and the handler is
\* called with it: parseLine, env.Emit, execUnit.send, pipe.Write of an
\* Event with the unit's id.
LineEmitted ==
    /\ wpc = "read" /\ wm = "scan"
    /\ ~rClosed /\ avail > 0
    /\ avail' = avail - 1

\* C20. Quiescence after shutdown: once the tail input's Close has returned
\* (which the runtime awaits before it writes Terminated) no Watcher of it
\* hands a line to the handler any more, so no Event with the unit's id is
\* written (a Scan that Close found in flight may end).
C20_QuietAfterClose == [][LineEmitted => ~lateScan]_vars

=======================================================================
